---- MODULE Spec2Model ----
(***************************************************************************)
(* Order manager (order_manager.py): the menu loop, the add-order flow,    *)
(* the fulfil ("process order") flow and the two JSON files they persist.  *)
(*                                                                         *)
(* A text is a sequence of one-character strings, so that strip(),         *)
(* upper() and int() are computed and not assumed.  A file is a record     *)
(* [kind, data]: kind "missing" (no such file), "corrupt" (content that    *)
(* json.load rejects) or "json" (a JSON array, held in data).              *)
(* One action is one step of the program between two blocking console      *)
(* reads or two file accesses; pc is the position of the process.          *)
(***************************************************************************)
EXTENDS Integers, Sequences, FiniteSets, Bags, TLC

VARIABLES
    pc,               \* position of the process
    choice,           \* main_menu's choice, stripped (the operation in progress)
    orders,           \* main_menu's in-memory pending list
    inputFile,        \* orders.json
    outputFile,       \* output_orders.json
    line,             \* the text whose reading ended the operation (<<>> while a prompt is pending)
    asked,            \* the prompts issued by the operation in progress
    pre,              \* the collections as they were when the operation began
    msg,              \* the message an operation returns
    result,           \* process_order's second return value (<<>> is None)
    order_id,         \* add_order local
    customer,         \* add_order local
    items,            \* add_order local
    name,             \* add_order local
    price,            \* add_order local
    index,            \* process_order local
    completed_order,  \* process_order local (<<>> before the pop)
    existing_output,  \* process_order local
    report,           \* what print_order_report last rendered
    stopped,          \* a run was stopped inside a fulfilment
    ledger            \* the orders this run has loaded or added, as a bag

vars == <<pc, choice, orders, inputFile, outputFile, line, asked, pre, msg, result,
          order_id, customer, items, name, price, index, completed_order,
          existing_output, report, stopped, ledger>>

-----------------------------------------------------------------------------
(* Bounds *)

MaxOrders == 2    \* orders held by the two collections together before add is cut off
MaxItems == 2     \* items accepted for one order before the item loop must end
MaxPrice == 3     \* highest unit price of the orders whose total is computed
MaxQuantity == 2  \* highest quantity of the orders whose total is computed

-----------------------------------------------------------------------------
(* Sequences *)

Range(seq) == {seq[i] : i \in 1..Len(seq)}

-----------------------------------------------------------------------------
(* Texts *)

Whitespace == {" "}

Digits == {"0", "1", "2", "3", "4", "5", "6", "7", "8", "9"}

RECURSIVE LStrip(_)
LStrip(t) == IF t # <<>> /\ Head(t) \in Whitespace THEN LStrip(Tail(t)) ELSE t

RECURSIVE RStrip(_)
RStrip(t) ==
    IF t # <<>> /\ t[Len(t)] \in Whitespace
        THEN RStrip(SubSeq(t, 1, Len(t) - 1))
        ELSE t

\* the text as typed, not stripped
StripOmitted(t) == t

\* str.strip()
Strip(t) == RStrip(LStrip(t))

UpperChar(c) ==
    CASE c = "a" -> "A"
      [] c = "b" -> "B"
      [] c = "c" -> "C"
      [] c = "t" -> "T"
      [] c = "x" -> "X"
      [] OTHER -> c

\* an empty text taken for an answer
BlankIgnored(t) == FALSE

\* "not text": the empty text is falsy
Blank(t) == t = <<>>

\* the text as typed, not upper-cased
UpperOmitted(t) == t

\* str.upper()
Upper(t) == [i \in 1..Len(t) |-> UpperChar(t[i])]

DigitVal(c) ==
    CASE c = "0" -> 0 [] c = "1" -> 1 [] c = "2" -> 2 [] c = "3" -> 3
      [] c = "4" -> 4 [] c = "5" -> 5 [] c = "6" -> 6 [] c = "7" -> 7
      [] c = "8" -> 8 [] c = "9" -> 9

RECURSIVE DecimalValue(_)
DecimalValue(t) ==
    IF t = <<>> THEN 0
    ELSE 10 * DecimalValue(SubSeq(t, 1, Len(t) - 1)) + DigitVal(t[Len(t)])

AllDigits(t) == t # <<>> /\ \A i \in 1..Len(t) : t[i] \in Digits

\* int(text): surrounding whitespace is ignored, one optional sign, then
\* decimal digits; anything else raises ValueError (ok = FALSE).
ParseInt(t) ==
    LET s == Strip(t)
        signed == s # <<>> /\ Head(s) \in {"+", "-"}
        body == IF signed THEN Tail(s) ELSE s
    IN  IF AllDigits(body)
            THEN [ok |-> TRUE,
                  val |-> IF signed /\ Head(s) = "-"
                              THEN 0 - DecimalValue(body)
                              ELSE DecimalValue(body)]
            ELSE [ok |-> FALSE, val |-> 0]

-----------------------------------------------------------------------------
(* Console inputs explored *)

MenuInputs ==
    {<<>>, <<" ">>, <<"1">>, <<" ", "1">>, <<"2">>, <<"3">>, <<"3", " ">>,
     <<"4">>, <<"5">>, <<"x">>}

IdInputs == {<<>>, <<" ">>, <<"a">>, <<"A">>, <<" ", "a", " ">>, <<"b">>}

CustomerInputs == {<<>>, <<" ", " ">>, <<"c">>, <<"c", " ">>}

NameInputs == {<<>>, <<" ">>, <<" ", "t">>}

PriceInputs == {<<>>, <<"x">>, <<"-", "1">>, <<"0">>, <<" ", "2">>}

QuantityInputs == {<<"x">>, <<"-", "1">>, <<"0">>, <<"+", "2">>}

SelectionInputs ==
    {<<>>, <<" ">>, <<"x">>, <<"1", "x">>, <<"-", "1">>, <<"0">>, <<"1">>,
     <<" ", "2">>, <<"2">>, <<"3">>, <<"4">>, <<"1", "0">>}

-----------------------------------------------------------------------------
(* Store *)

Missing == [kind |-> "missing", data |-> <<>>]

Corrupt == [kind |-> "corrupt", data |-> <<>>]

JsonFile(list) == [kind |-> "json", data |-> list]

\* a load that never finds anything
LoadNothing(file) == <<>>

\* what open() and json.load() raise on the file ("None": nothing)
Raised(file) ==
    CASE file.kind = "missing" -> "FileNotFoundError"
      [] file.kind = "corrupt" -> "JSONDecodeError"
      [] OTHER -> "None"

\* an except clause that names the missing file only
HandledMissingOnly(exception) == exception = "FileNotFoundError"

\* except (FileNotFoundError, json.JSONDecodeError)
Handled(exception) == exception \in {"FileNotFoundError", "JSONDecodeError"}

\* the exception leaves load_data and ends the process
LoadEscapes(file) == Raised(file) # "None" /\ ~Handled(Raised(file))

\* load_data(filename): the list returned
load_data(file) == IF Raised(file) = "None" THEN file.data ELSE <<>>

\* save_orders(filename, orders): the file as the call leaves it
\* a save that writes an empty list whatever it is given
SaveNothing(list) == JsonFile(<<>>)

save_orders(list) == JsonFile(list)

-----------------------------------------------------------------------------
(* Order model *)

\* calculate_order_total(order)
RECURSIVE SumSubtotals(_)
SumSubtotals(its) ==
    IF its = <<>> THEN 0
    ELSE Head(its).price * Head(its).quantity + SumSubtotals(Tail(its))

\* a total that adds the unit prices and forgets the quantities
RECURSIVE SumPrices(_)
SumPrices(its) == IF its = <<>> THEN 0 ELSE Head(its).price + SumPrices(Tail(its))

TotalOfPrices(order) == SumPrices(order.items)

calculate_order_total(order) == SumSubtotals(order.items)

\* the check against the pending list left out
IdExistsNever(list, id) == FALSE

\* a check that also looks into the completed file
IdExistsAnywhere(list, id) ==
    \E o \in Range(list) \cup Range(load_data(outputFile)) : o.order_id = id

\* any(o["order_id"] == order_id for o in orders)
IdExists(list, id) == \E i \in 1..Len(list) : list[i].order_id = id

\* the lower limit of the range left out
InRangeNoFloor(i, list) == i < Len(list)

\* 0 <= index < len(orders)
InRange(i, list) == 0 <= i /\ i < Len(list)

\* a list index as Python resolves it: a negative index counts from the end
PyIndex(list, i) == IF i < 0 THEN i + Len(list) ELSE i

\* list.pop(index) raises IndexError unless the resolved index is in the list
PopDefined(list, i) == 0 <= PyIndex(list, i) /\ PyIndex(list, i) < Len(list)

\* list.pop() without the index: the last element goes
PopLast(list, i) ==
    [item |-> list[Len(list)], rest |-> SubSeq(list, 1, Len(list) - 1)]

\* an element read at the index and left in the list
PopKeeps(list, i) == [item |-> list[PyIndex(list, i) + 1], rest |-> list]

\* list.pop(index): the element returned and the list that remains
Pop(list, i) ==
    [item |-> list[PyIndex(list, i) + 1],
     rest |-> SubSeq(list, 1, PyIndex(list, i))
                  \o SubSeq(list, PyIndex(list, i) + 2, Len(list))]

\* list.insert(0, order)
InsertFirst(list, order) == <<order>> \o list

\* list.append(order)
AppendOrder(list, order) == Append(list, order)

\* one order as print_order_report renders it
ReportEntry(order) ==
    [order_id |-> order.order_id,
     customer |-> order.customer,
     subtotals |-> [i \in 1..Len(order.items) |->
                        order.items[i].price * order.items[i].quantity],
     total |-> calculate_order_total(order)]

\* print_order_report(orders)
print_order_report(list) == [i \in 1..Len(list) |-> ReportEntry(list[i])]

\* a list as a bag: how many times each order occurs in it
BagOf(list) ==
    [o \in {list[i] : i \in 1..Len(list)} |->
        Cardinality({i \in 1..Len(list) : list[i] = o})]

-----------------------------------------------------------------------------
(* Messages *)

Message(kind, id) == [kind |-> kind, id |-> id]

NoMessage == Message("None", <<>>)

MsgNoPending == Message("NoPendingOrders", <<>>)

MsgCancelled == Message("Cancelled", <<>>)

MsgFulfilled(order) == Message("Fulfilled", order.order_id)

\* an except clause that tells only the index error
IndexErrorOnly(exception) ==
    IF exception = "IndexError"
        THEN Message("InvalidOrderNumber", <<>>)
        ELSE Message("Cancelled", <<>>)

\* the except clause of process_order: one message for both exceptions
ProcessErrorMessage(exception) ==
    IF exception \in {"ValueError", "IndexError"}
        THEN Message("InvalidOrderNumber", <<>>)
        ELSE NoMessage

MsgEmptyOrderId == Message("EmptyOrderId", <<>>)

MsgDuplicate(id) == Message("DuplicateOrderId", id)

MsgEmptyCustomer == Message("EmptyCustomer", <<>>)

MsgAdded(id) == Message("Added", id)

MsgInvalidOption == Message("InvalidOption", <<>>)

MsgShutdown == Message("Shutdown", <<>>)

-----------------------------------------------------------------------------
(* State *)

\* the collections as an operation finds them
Snapshot == [orders |-> orders, inputFile |-> inputFile, outputFile |-> outputFile]

NoSnapshot == [orders |-> <<>>, inputFile |-> Missing, outputFile |-> Missing]

\* orders the program may have written in an earlier run
Tea == [name |-> <<"t">>, price |-> 2, quantity |-> 2]

EarlierPending == [order_id |-> <<"A">>, customer |-> <<"c">>, items |-> <<Tea>>]

EarlierCompleted == [order_id |-> <<"B">>, customer |-> <<"c">>, items |-> <<Tea, Tea>>]

\* the two files as a first run may find them: <<orders.json, output_orders.json>>
InitialFiles ==
    {<<Missing, Missing>>,
     <<Corrupt, Corrupt>>,
     <<JsonFile(<<EarlierPending>>), Missing>>,
     <<JsonFile(<<EarlierPending>>), JsonFile(<<EarlierCompleted>>)>>}

\* the memory of a process that has not read anything yet
FreshLocals ==
    /\ choice' = <<>>
    /\ line' = <<>>
    /\ asked' = {}
    /\ pre' = NoSnapshot
    /\ msg' = NoMessage
    /\ result' = <<>>
    /\ order_id' = <<>>
    /\ customer' = <<>>
    /\ items' = <<>>
    /\ name' = <<>>
    /\ price' = 0
    /\ index' = 0
    /\ completed_order' = <<>>
    /\ existing_output' = <<>>
    /\ report' = <<>>

Init ==
    /\ pc = "start"
    /\ choice = <<>>
    /\ orders = <<>>
    /\ \E f \in InitialFiles : inputFile = f[1] /\ outputFile = f[2]
    /\ line = <<>>
    /\ asked = {}
    /\ pre = NoSnapshot
    /\ msg = NoMessage
    /\ result = <<>>
    /\ order_id = <<>>
    /\ customer = <<>>
    /\ items = <<>>
    /\ name = <<>>
    /\ price = 0
    /\ index = 0
    /\ completed_order = <<>>
    /\ existing_output = <<>>
    /\ report = <<>>
    /\ stopped = FALSE
    /\ ledger = EmptyBag

addLocals == <<order_id, customer, items, name, price>>

processLocals == <<index, completed_order, existing_output>>

files == <<inputFile, outputFile>>

-----------------------------------------------------------------------------
(* main_menu *)

\* orders = load_data(INPUT_FILE)
Startup ==
    /\ pc = "start"
    /\ IF LoadEscapes(inputFile)
           THEN orders' = orders /\ pc' = "aborted"
           ELSE orders' = load_data(inputFile) /\ pc' = "menu"
    /\ ledger' = IF LoadEscapes(inputFile)
                     THEN ledger
                     ELSE BagOf(load_data(inputFile) \o load_data(outputFile))
    /\ UNCHANGED <<choice, files, line, asked, pre, msg, result, addLocals,
                   processLocals, report, stopped>>

\* choice empty or "4": the loop ends and the process with it
MenuExit ==
    /\ pc = "menu"
    /\ \E t \in MenuInputs :
        /\ Blank(Strip(t)) \/ Strip(t) = <<"4">>
        /\ line' = t
        /\ choice' = Strip(t)
    /\ msg' = MsgShutdown
    /\ pc' = "exited"
    /\ UNCHANGED <<orders, files, asked, pre, result, addLocals, processLocals,
                   report, stopped, ledger>>

\* choice "1": add_order(orders) is entered
MenuAdd ==
    /\ pc = "menu"
    /\ \E t \in MenuInputs :
        /\ Strip(t) = <<"1">>
        /\ line' = <<>>
        /\ choice' = Strip(t)
    /\ pre' = Snapshot
    /\ pc' = "add_id"
    /\ UNCHANGED <<orders, files, asked, msg, result, addLocals, processLocals,
                   report, stopped, ledger>>

\* choice "2": print_order_report(orders)
MenuReport ==
    /\ pc = "menu"
    /\ \E t \in MenuInputs :
        /\ Strip(t) = <<"2">>
        /\ line' = t
        /\ choice' = Strip(t)
    /\ pre' = Snapshot
    /\ report' = print_order_report(orders)
    /\ pc' = "ret"
    /\ UNCHANGED <<orders, files, asked, msg, result, addLocals, processLocals,
                   stopped, ledger>>

\* choice "3": process_order(orders) is entered
MenuProcess ==
    /\ pc = "menu"
    /\ \E t \in MenuInputs :
        /\ Strip(t) = <<"3">>
        /\ line' = <<>>
        /\ choice' = Strip(t)
    /\ pre' = Snapshot
    /\ pc' = "process"
    /\ UNCHANGED <<orders, files, asked, msg, result, addLocals, processLocals,
                   report, stopped, ledger>>

\* any other choice
MenuInvalid ==
    /\ pc = "menu"
    /\ \E t \in MenuInputs :
        /\ ~Blank(Strip(t))
        /\ Strip(t) \notin {<<"1">>, <<"2">>, <<"3">>, <<"4">>}
        /\ line' = t
        /\ choice' = Strip(t)
    /\ pre' = Snapshot
    /\ msg' = MsgInvalidOption
    /\ pc' = "ret"
    /\ UNCHANGED <<orders, files, asked, result, addLocals, processLocals,
                   report, stopped, ledger>>

\* the result is printed and the loop comes back to the menu prompt
Return ==
    /\ pc = "ret"
    /\ pc' = "menu"
    /\ FreshLocals
    /\ UNCHANGED <<orders, files, stopped, ledger>>

-----------------------------------------------------------------------------------------------------------------------------------------------------
(* add_order *)

\* a text was read: it is kept when it ended the operation
Answered(t) == line' = IF pc' = "ret" THEN t ELSE <<>>

\* the two collections hold fewer orders than the bound: one more may be added
RoomForOrder == Len(orders) + Len(load_data(outputFile)) < MaxOrders

\* the order id is read, upper-cased and checked against the pending list
AddReadId ==
    /\ pc = "add_id"
    /\ \E t \in IdInputs :
        /\ order_id' = Upper(Strip(t))
        /\ IF Blank(order_id')
               THEN msg' = MsgEmptyOrderId /\ pc' = "ret"
               ELSE IF IdExists(orders, order_id')
                   THEN msg' = MsgDuplicate(order_id') /\ pc' = "ret"
                   ELSE RoomForOrder /\ msg' = msg /\ pc' = "add_customer"
        /\ Answered(t)
    /\ asked' = asked \cup {"order_id"}
    /\ UNCHANGED <<choice, orders, files, pre, result, customer, items, name,
                   price, processLocals, report, stopped, ledger>>

\* the customer name is read; the item list starts empty
AddReadCustomer ==
    /\ pc = "add_customer"
    /\ \E t \in CustomerInputs :
        /\ customer' = Strip(t)
        /\ IF Blank(customer')
               THEN msg' = MsgEmptyCustomer /\ pc' = "ret"
               ELSE msg' = msg /\ pc' = "add_name"
        /\ Answered(t)
    /\ items' = <<>>
    /\ asked' = asked \cup {"customer"}
    /\ UNCHANGED <<choice, orders, files, pre, result, order_id, name, price,
                   processLocals, report, stopped, ledger>>

\* an item loop that an empty name ends whatever was accepted
MayFinishAlways(its) == TRUE

\* an empty name ends the item loop once an item was accepted
MayFinish(its) == ~(Len(its) = 0)

\* a quantity check that lets zero through
QuantityNotNegative(v) == ~(v < 0)

PriceAccepted(v) == ~(v < 0)

QuantityAccepted(v) == ~(v <= 0)

\* the item name t is read: a name goes on to the price; an empty name with
\* no item accepted yet is refused and the name is asked again
AddReadNameWith(t) ==
    /\ pc = "add_name"
    /\ name' = Strip(t)
    /\ IF Blank(name')
           THEN ~MayFinish(items) /\ pc' = "add_name"
           ELSE Len(items) < MaxItems /\ pc' = "add_price"
    /\ Answered(t)
    /\ asked' = asked \cup {"name"}
    /\ UNCHANGED <<choice, orders, files, pre, msg, result, order_id, customer,
                   items, price, processLocals, report, stopped, ledger>>

AddReadName == \E t \in NameInputs : AddReadNameWith(t)

\* the price t is read: a non-integer or a negative price drops the entry
AddReadPriceWith(t) ==
    /\ pc = "add_price"
    /\ IF ParseInt(t).ok /\ PriceAccepted(ParseInt(t).val)
           THEN price' = ParseInt(t).val /\ pc' = "add_quantity"
           ELSE price' = price /\ pc' = "add_name"
    /\ Answered(t)
    /\ asked' = asked \cup {"price"}
    /\ UNCHANGED <<choice, orders, files, pre, msg, result, order_id, customer,
                   items, name, processLocals, report, stopped, ledger>>

AddReadPrice == \E t \in PriceInputs : AddReadPriceWith(t)

\* the quantity t is read: a non-integer or a quantity below 1 drops the
\* entry, otherwise the item is appended
AddReadQuantityWith(t) ==
    /\ pc = "add_quantity"
    /\ IF ParseInt(t).ok /\ QuantityAccepted(ParseInt(t).val)
           THEN items' = Append(items, [name |-> name, price |-> price,
                                        quantity |-> ParseInt(t).val])
           ELSE items' = items
    /\ pc' = "add_name"
    /\ Answered(t)
    /\ asked' = asked \cup {"quantity"}
    /\ UNCHANGED <<choice, orders, files, pre, msg, result, order_id, customer,
                   name, price, processLocals, report, stopped, ledger>>

AddReadQuantity == \E t \in QuantityInputs : AddReadQuantityWith(t)

\* the order add_order builds
NewOrder == [order_id |-> order_id, customer |-> customer, items |-> items]

\* an empty item name after at least one item: the order is built, appended
\* to the pending list and the pending file is written
AddDone ==
    /\ pc = "add_name"
    /\ MayFinish(items)
    /\ \E t \in NameInputs :
        /\ name' = Strip(t)
        /\ Blank(name')
        /\ pc' = "ret"
        /\ Answered(t)
    /\ asked' = asked \cup {"name"}
    /\ orders' = AppendOrder(orders, NewOrder)
    /\ inputFile' = save_orders(orders')
    /\ msg' = MsgAdded(order_id)
    /\ ledger' = ledger (+) SetToBag({NewOrder})
    /\ UNCHANGED <<choice, outputFile, pre, result, order_id, customer, items,
                   price, processLocals, report, stopped>>

-----------------------------------------------------------------------------
(* process_order *)

\* no pending order: nothing is listed and nothing is asked
ProcessEmpty ==
    /\ pc = "process"
    /\ orders = <<>>
    /\ msg' = MsgNoPending
    /\ result' = <<>>
    /\ pc' = "ret"
    /\ UNCHANGED <<choice, orders, files, line, asked, pre, addLocals,
                   processLocals, report, stopped, ledger>>

\* the pending orders are listed
ProcessList ==
    /\ pc = "process"
    /\ orders # <<>>
    /\ report' = [i \in 1..Len(orders) |->
                     [order_id |-> orders[i].order_id, customer |-> orders[i].customer]]
    /\ pc' = "process_choice"
    /\ UNCHANGED <<choice, orders, files, line, asked, pre, msg, result,
                   addLocals, processLocals, stopped, ledger>>

\* the selection is read: empty cancels; an integer in range pops the order;
\* a non-integer (ValueError) or an integer out of range (IndexError) fails
ProcessChoice ==
    /\ pc = "process_choice"
    /\ \E t \in SelectionInputs :
        /\ IF Blank(Strip(t))
               THEN /\ msg' = MsgCancelled
                    /\ pc' = "ret"
                    /\ UNCHANGED <<orders, index, completed_order>>
               ELSE IF ~ParseInt(Strip(t)).ok
                   THEN /\ msg' = ProcessErrorMessage("ValueError")
                        /\ pc' = "ret"
                        /\ UNCHANGED <<orders, index, completed_order>>
                   ELSE /\ index' = ParseInt(Strip(t)).val - 1
                        /\ IF InRange(index', orders) /\ PopDefined(orders, index')
                               THEN /\ completed_order' = <<Pop(orders, index').item>>
                                    /\ orders' = Pop(orders, index').rest
                                    /\ msg' = msg
                                    /\ pc' = "process_load"
                               ELSE /\ msg' = ProcessErrorMessage("IndexError")
                                    /\ pc' = "ret"
                                    /\ UNCHANGED <<orders, completed_order>>
        /\ line' = t
    /\ asked' = asked \cup {"selection"}
    /\ result' = <<>>
    /\ UNCHANGED <<choice, files, pre, addLocals, existing_output, report, stopped, ledger>>

\* existing_output = load_data(OUTPUT_FILE)
ProcessLoad ==
    /\ pc = "process_load"
    /\ IF LoadEscapes(outputFile)
           THEN existing_output' = existing_output /\ pc' = "aborted"
           ELSE existing_output' = load_data(outputFile) /\ pc' = "process_save_output"
    /\ UNCHANGED <<choice, orders, files, line, asked, pre, msg, result,
                   addLocals, index, completed_order, report, stopped, ledger>>

\* a fulfilment whose first write is the pending file
SavePendingFirst ==
    /\ pc = "process_save_output"
    /\ inputFile' = save_orders(orders)
    /\ pc' = "process_save_input"
    /\ UNCHANGED <<choice, orders, outputFile, line, asked, pre, msg, result,
                   addLocals, processLocals, report, stopped, ledger>>

\* save_orders(OUTPUT_FILE, existing_output + [completed_order])
ProcessSaveOutput ==
    /\ pc = "process_save_output"
    /\ outputFile' = save_orders(existing_output \o completed_order)
    /\ pc' = "process_save_input"
    /\ UNCHANGED <<choice, orders, inputFile, line, asked, pre, msg, result,
                   addLocals, processLocals, report, stopped, ledger>>

\* a fulfilment that returns without writing the pending file
ReturnWithoutSavingInput ==
    /\ pc = "process_save_input"
    /\ msg' = MsgFulfilled(completed_order[1])
    /\ result' = completed_order
    /\ pc' = "ret"
    /\ UNCHANGED <<choice, orders, files, line, asked, pre, addLocals,
                   processLocals, report, stopped, ledger>>

\* save_orders(INPUT_FILE, orders) and the return of the fulfilled order
ProcessSaveInput ==
    /\ pc = "process_save_input"
    /\ inputFile' = save_orders(orders)
    /\ msg' = MsgFulfilled(completed_order[1])
    /\ result' = completed_order
    /\ pc' = "ret"
    /\ UNCHANGED <<choice, orders, outputFile, line, asked, pre, addLocals,
                   processLocals, report, stopped, ledger>>

-----
(* The process and its runs *)

\* the program is run again on the files the last run left
Restart ==
    /\ pc \in {"exited", "stopped"}
    /\ pc' = "start"
    /\ orders' = <<>>
    /\ FreshLocals
    /\ ledger' = EmptyBag
    /\ UNCHANGED <<files, stopped>>

Next ==
    \/ Startup
    \/ MenuExit
    \/ MenuAdd
    \/ MenuReport
    \/ MenuProcess
    \/ MenuInvalid
    \/ Return
    \/ AddReadId
    \/ AddReadCustomer
    \/ AddReadName
    \/ AddReadPrice
    \/ AddReadQuantity
    \/ AddDone
    \/ ProcessEmpty
    \/ ProcessList
    \/ ProcessChoice
    \/ ProcessLoad
    \/ ProcessSaveOutput
    \/ ProcessSaveInput
    \/ Restart

\* runs that end at the menu
Spec == Init /\ [][Next]_vars

\* the process is stopped inside a fulfilment, after the selection prompt was
\* issued: its memory is lost, the files stay as they are.  (A stop anywhere
\* else leaves the files as the last menu prompt saw them, like an exit.)
\* One stop is explored per behaviour.
Stop ==
    /\ pc \in {"process_choice", "process_load", "process_save_output",
               "process_save_input"}
    /\ ~stopped
    /\ stopped' = TRUE
    /\ pc' = "stopped"
    /\ orders' = <<>>
    /\ FreshLocals
    /\ ledger' = EmptyBag
    /\ UNCHANGED files

NextStop == Next \/ Stop

\* runs that may also be stopped inside a fulfilment
SpecStop == Init /\ [][NextStop]_vars

-----------------------------------------------------------------------------
(* The report of one order, for every item list within the bounds *)

\* the items add_order can accept: any name, price >= 0, quantity >= 1
ItemValues == [name : {<<"t">>}, price : 0..MaxPrice, quantity : 1..MaxQuantity]

ItemLists == UNION {[1..n -> ItemValues] : n \in 1..MaxItems}

\* the menu prompt of a run whose pending list is one order
InitTotal ==
    /\ pc = "menu"
    /\ choice = <<>>
    /\ \E its \in ItemLists :
           orders = <<[order_id |-> <<"A">>, customer |-> <<"c">>, items |-> its]>>
    /\ inputFile = JsonFile(orders)
    /\ outputFile = Missing
    /\ line = <<>>
    /\ asked = {}
    /\ pre = NoSnapshot
    /\ msg = NoMessage
    /\ result = <<>>
    /\ order_id = <<>>
    /\ customer = <<>>
    /\ items = <<>>
    /\ name = <<>>
    /\ price = 0
    /\ index = 0
    /\ completed_order = <<>>
    /\ existing_output = <<>>
    /\ report = <<>>
    /\ stopped = FALSE
    /\ ledger = BagOf(orders)

NextTotal == MenuReport \/ Return

\* runs that only report
SpecTotal == InitTotal /\ [][NextTotal]_vars

-----------------------------------------------------------------------------
(* Vocabulary of the properties *)

\* the orders a file holds (none when it is missing or not valid JSON)
Persisted(file) == file.data

IsPrefix(a, b) == Len(a) <= Len(b) /\ \A i \in 1..Len(a) : a[i] = b[i]

\* a sequence without its k-th element (k counted from 1)
Without(seq, k) ==
    [i \in 1..(Len(seq) - 1) |-> IF i < k THEN seq[i] ELSE seq[i + 1]]

LowerChar(c) ==
    CASE c = "A" -> "a"
      [] c = "B" -> "b"
      [] c = "C" -> "c"
      [] c = "T" -> "t"
      [] c = "X" -> "x"
      [] OTHER -> c

SameIgnoringCase(a, b) ==
    /\ Len(a) = Len(b)
    /\ \A i \in 1..Len(a) : LowerChar(a[i]) = LowerChar(b[i])

UniqueIds(list) ==
    \A i, j \in 1..Len(list) : i # j => list[i].order_id # list[j].order_id

\* nothing the operation in progress found has changed
NothingChanged ==
    /\ orders = pre.orders
    /\ inputFile = pre.inputFile
    /\ outputFile = pre.outputFile

\* an operation has finished and its result is about to be printed
Finished(option) == pc = "ret" /\ choice = <<option>>

\* the fulfil flow has popped an order and has not returned yet
Fulfilling == pc \in {"process_load", "process_save_output", "process_save_input"}

\* the add flow is past the order-id prompt / past the customer prompt
PastOrderId == pc \in {"add_customer", "add_name", "add_price", "add_quantity"}

PastCustomer == pc \in {"add_name", "add_price", "add_quantity"}

\* the selection typed in the fulfil flow is the integer k
Selected(k) == ParseInt(line).ok /\ ParseInt(line).val = k

-----------------------------------------------------------------------------
(* Properties *)

\* C1: a fulfilment with an integer selection k in 1..len(pending) removes
\* exactly the k-th pending order (the others keep their order), appends it
\* unmodified at the end of the completed collection loaded from the completed
\* file, returns it, and persists both collections: pending is one shorter,
\* completed one longer.
C1_FulfilMovesSelected ==
    \A k \in 1..Len(pre.orders) :
        (Finished("3") /\ "selection" \in asked /\ Selected(k)) =>
            /\ msg.kind = "Fulfilled"
            /\ result = <<pre.orders[k]>>
            /\ orders = Without(pre.orders, k)
            /\ Len(orders) = Len(pre.orders) - 1
            /\ inputFile.kind = "json"
            /\ Persisted(inputFile) = orders
            /\ outputFile.kind = "json"
            /\ Persisted(outputFile) = Append(Persisted(pre.outputFile), pre.orders[k])
            /\ Len(Persisted(outputFile)) = Len(Persisted(pre.outputFile)) + 1

\* C1 witness: the first of two pending orders was fulfilled
C1_Witness ==
    /\ Finished("3")
    /\ Len(pre.orders) = 2
    /\ Selected(1)
    /\ msg.kind = "Fulfilled"

\* C2: an add whose order id equals, ignoring case, the id of a pending order
\* fails with the duplicate-id error and changes neither the pending list nor
\* either file; such an id never gets past the order-id prompt.
C2_DuplicateIdRejected ==
    /\ (Finished("1") /\ asked = {"order_id"}
            /\ \E i \in 1..Len(pre.orders) :
                   SameIgnoringCase(Strip(line), pre.orders[i].order_id))
        => (msg.kind = "DuplicateOrderId" /\ NothingChanged)
    /\ PastOrderId =>
           \A i \in 1..Len(orders) : ~SameIgnoringCase(order_id, orders[i].order_id)

\* C2 witness: a lower-case spelling of a pending id was refused
C2_Witness ==
    /\ Finished("1")
    /\ msg.kind = "DuplicateOrderId"
    /\ Strip(line) = <<"a">>
    /\ Len(orders) >= 1
    /\ orders[1].order_id = <<"A">>

\* C3: no two orders of the pending collection, in memory or in the pending
\* file, have the same order id.
C3_PendingIdsUnique == UniqueIds(orders) /\ UniqueIds(Persisted(inputFile))

\* C3 witness: a second order was added to the pending collection
C3_Witness ==
    /\ Finished("1")
    /\ msg.kind = "Added"
    /\ Len(orders) = 2

\* C4 as claimed: at every point no order is both in the pending collection
\* (in memory or in its file) and in the completed file.
C4_NeverInBoth ==
    /\ Range(orders) \cap Range(Persisted(outputFile)) = {}
    /\ Range(Persisted(inputFile)) \cap Range(Persisted(outputFile)) = {}

\* C4 amended: a fulfilment takes the order out of the in-memory pending list
\* before either file is written, and when it returns the order is in the
\* completed file and no longer in the pending file; between the two file
\* writes the order is in both files.
C4_TransferEndsAtSecondWrite ==
    /\ Fulfilling => completed_order[1] \notin Range(orders)
    /\ pc = "process_save_input" =>
           /\ completed_order[1] \in Range(Persisted(outputFile))
           /\ completed_order[1] \in Range(Persisted(inputFile))
    /\ (Finished("3") /\ msg.kind = "Fulfilled") =>
           /\ result[1] \notin Range(orders)
           /\ result[1] \notin Range(Persisted(inputFile))
           /\ result[1] \in Range(Persisted(outputFile))

\* C4 witness: a fulfilment has returned while another order stays pending
C4_Witness ==
    /\ Finished("3")
    /\ msg.kind = "Fulfilled"
    /\ Len(orders) = 1
    /\ Persisted(inputFile) = orders

\* C5: a fulfil on an empty pending list asks nothing and fails; an integer
\* selection outside 1..len(pending) fails; neither returns an order nor
\* changes the pending list or a file, and no such selection pops an order.
C5_NotFoundChangesNothing ==
    /\ (Finished("3") /\ pre.orders = <<>>) =>
           /\ msg.kind = "NoPendingOrders"
           /\ asked = {}
           /\ result = <<>>
           /\ NothingChanged
    /\ (Finished("3") /\ pre.orders # <<>> /\ ParseInt(line).ok
            /\ ParseInt(line).val \notin 1..Len(pre.orders)) =>
           /\ msg.kind = "InvalidOrderNumber"
           /\ result = <<>>
           /\ NothingChanged
    /\ Fulfilling => (ParseInt(line).ok /\ ParseInt(line).val \in 1..Len(pre.orders))

\* C5 witness: selection 0 on a non-empty pending list was refused
C5_Witness ==
    /\ Finished("3")
    /\ pre.orders # <<>>
    /\ Selected(0)
    /\ msg.kind = "InvalidOrderNumber"

\* the selection typed on a non-empty pending list is not empty and not an integer
NonIntegerSelection ==
    /\ Finished("3")
    /\ pre.orders # <<>>
    /\ ~Blank(Strip(line))
    /\ ~ParseInt(line).ok

\* C6 as claimed: a non-integer selection gives an error result other than the
\* one an out-of-range index gives, and changes nothing.
C6_ParseErrorDistinct ==
    NonIntegerSelection =>
        /\ msg.kind \notin {"None", "Cancelled", "Fulfilled"}
        /\ msg # ProcessErrorMessage("IndexError")
        /\ result = <<>>
        /\ NothingChanged

\* C6 amended: a non-integer selection gives the invalid-order-number error,
\* the same result an out-of-range index gives, returns no order and changes
\* neither collection nor file.
C6_ParseErrorChangesNothing ==
    NonIntegerSelection =>
        /\ msg.kind = "InvalidOrderNumber"
        /\ result = <<>>
        /\ NothingChanged

\* C6 witness: the selection "1x" was refused
C6_Witness == NonIntegerSelection /\ line = <<"1", "x">> /\ msg.kind = "InvalidOrderNumber"

\* C7: an empty or whitespace-only selection on a non-empty pending list is a
\* cancellation: its result is none of the error results, no order is
\* returned and nothing changes.
C7_EmptySelectionCancels ==
    (Finished("3") /\ pre.orders # <<>> /\ \A i \in 1..Len(line) : line[i] = " ") =>
        /\ msg.kind = "Cancelled"
        /\ msg \notin {MsgNoPending, ProcessErrorMessage("ValueError"),
                       ProcessErrorMessage("IndexError")}
        /\ result = <<>>
        /\ NothingChanged

\* C7 witness: a selection of one space was taken as a cancellation
C7_Witness ==
    /\ Finished("3")
    /\ pre.orders # <<>>
    /\ line = <<" ">>
    /\ msg.kind = "Cancelled"

\* C8: an empty order id or an empty customer name ends the add with its
\* validation error before any item prompt and with nothing changed; the add
\* flow never goes on with an empty id or an empty customer.
C8_EmptyFieldAborts ==
    /\ (Finished("1") /\ asked = {"order_id"} /\ order_id = <<>>) =>
           (msg.kind = "EmptyOrderId" /\ NothingChanged)
    /\ (Finished("1") /\ "customer" \in asked /\ customer = <<>>) =>
           /\ msg.kind = "EmptyCustomer"
           /\ asked = {"order_id", "customer"}
           /\ NothingChanged
    /\ PastOrderId => order_id # <<>>
    /\ PastCustomer => customer # <<>>
    /\ (Finished("1") /\ msg.kind = "Added") => (order_id # <<>> /\ customer # <<>>)

\* C8 witness: an empty customer name ended an add on a non-empty pending list
C8_Witness ==
    /\ Finished("1")
    /\ msg.kind = "EmptyCustomer"
    /\ orders # <<>>

\* no letter of the text is lower-case
UpperCased(t) == \A i \in 1..Len(t) : t[i] \notin {"a", "b", "c", "t", "x"}

\* C9: a successful add leaves the pending list as it was plus, at its end,
\* the new order (upper-cased id, customer, the accepted items in order),
\* writes that list to the pending file, returns a message with the id and
\* leaves the completed file alone.
C9_AddAppendsAndPersists ==
    (Finished("1") /\ msg.kind = "Added") =>
        /\ orders = Append(pre.orders, [order_id |-> order_id,
                                        customer |-> customer,
                                        items |-> items])
        /\ UpperCased(order_id)
        /\ Len(items) >= 1
        /\ inputFile.kind = "json"
        /\ Persisted(inputFile) = orders
        /\ msg.id = order_id
        /\ outputFile = pre.outputFile

\* C9 witness: an order of two items was added behind a pending order
C9_Witness ==
    /\ Finished("1")
    /\ msg.kind = "Added"
    /\ Len(pre.orders) = 1
    /\ Len(items) = 2
    /\ items[1] # items[2]

\* C10: the completed file is an append-only log: every step leaves its
\* content a prefix of the new content, and the only step that changes the
\* file is the fulfilment's write, which appends the fulfilled order.
C10_CompletedAppendOnly ==
    [][/\ IsPrefix(Persisted(outputFile), Persisted(outputFile'))
       /\ outputFile' # outputFile =>
              /\ pc = "process_save_output"
              /\ Persisted(outputFile') =
                     Append(Persisted(outputFile), completed_order[1])]_vars

\* C10 witness: a second entry was appended to the completed file
C10_Witness ==
    /\ pc = "process_save_input"
    /\ Len(Persisted(outputFile)) = 2
    /\ Len(Persisted(pre.outputFile)) = 1

\* the menu controller is Running: the process is inside the menu loop
Running == pc \notin {"start", "exited", "stopped"}

\* C11: the controller is Running once the pending file is loaded; it moves to
\* Exited exactly on a menu choice that is empty or "4"; after that nothing
\* runs but a new start of the program; every other choice and every
\* operation, however it ends, comes back to the menu prompt.
C11_MenuController ==
    [][/\ pc = "start" => pc' = "menu"
       /\ pc = "menu" => (pc' = "exited" <=> choice' \in {<<>>, <<"4">>})
       /\ pc' = "exited" => (pc = "menu" /\ choice' = Strip(line'))
       /\ pc = "exited" => (pc' = "start" /\ UNCHANGED files)
       /\ (Running /\ pc # "menu") => Running'
       /\ pc = "ret" => pc' = "menu"]_vars

\* C11 witness: a whitespace-only choice ended a run that holds a pending order
C11_Witness ==
    /\ pc = "exited"
    /\ line = <<" ">>
    /\ choice = <<>>
    /\ orders # <<>>

\* C12: loading a file that is missing or is not valid JSON gives the empty
\* list as a normal result, at the start of a run (pending file) and inside
\* every fulfilment (completed file); no load ever ends the process.
C12_LoadRecoversEmpty ==
    [][/\ (pc = "start" /\ inputFile.kind \in {"missing", "corrupt"}) =>
              (pc' = "menu" /\ orders' = <<>>)
       /\ (pc = "process_load" /\ outputFile.kind \in {"missing", "corrupt"}) =>
              (pc' = "process_save_output" /\ existing_output' = <<>>)
       /\ pc' # "aborted"]_vars

\* C12 witness: a fulfilment has loaded a completed file that is not valid JSON
C12_Witness ==
    /\ pc = "process_save_output"
    /\ outputFile.kind = "corrupt"
    /\ existing_output = <<>>
    /\ completed_order # <<>>

\* the sum of price * quantity over the items at the positions in S
RECURSIVE SumAt(_, _)
SumAt(its, S) ==
    IF S = {} THEN 0
    ELSE LET i == CHOOSE j \in S : TRUE
         IN  its[i].price * its[i].quantity + SumAt(its, S \ {i})

Rearrangements(n) == {p \in [1..n -> 1..n] : \A i, j \in 1..n : i # j => p[i] # p[j]}

Permuted(its, p) == [i \in 1..Len(its) |-> its[p[i]]]

\* C13: the total the report shows for an order is the sum of price *
\* quantity over its items, every rearrangement of the items has the same
\* total, and reporting changes neither the pending list nor a file.
C13_TotalIsSumOfSubtotals ==
    Finished("2") =>
        /\ Len(report) = Len(orders)
        /\ \A k \in 1..Len(orders) :
               LET its == orders[k].items
               IN  /\ report[k].total = SumAt(its, 1..Len(its))
                   /\ \A p \in Rearrangements(Len(its)) :
                          calculate_order_total(
                              [orders[k] EXCEPT !.items = Permuted(its, p)])
                              = report[k].total
        /\ NothingChanged

\* C13 witness: an order of two different items was reported with total 3*2 + 1*1
C13_Witness ==
    /\ Finished("2")
    /\ Len(orders) = 1
    /\ orders[1].items = <<[name |-> <<"t">>, price |-> 3, quantity |-> 2],
                           [name |-> <<"t">>, price |-> 1, quantity |-> 1]>>
    /\ report[1].total = 7

\* every order held anywhere: in memory, in a file, or in transit
OrdersAnywhere ==
    Range(orders) \cup Range(Persisted(inputFile)) \cup Range(Persisted(outputFile))
        \cup Range(completed_order) \cup Range(existing_output)

ValidItem(item) ==
    item.price \in Nat /\ item.quantity \in Nat /\ item.quantity >= 1

\* C14: every order, pending or completed, in memory or on file, has at least
\* one item, and every item, also of the order being entered, has an integer
\* price >= 0 and an integer quantity >= 1.
C14_ItemsValid ==
    /\ \A o \in OrdersAnywhere :
           Len(o.items) >= 1 /\ \A i \in 1..Len(o.items) : ValidItem(o.items[i])
    /\ \A i \in 1..Len(items) : ValidItem(items[i])

\* C14 witness: an added order of two items, one of them free, was fulfilled
\* after entries with a negative price and a zero quantity had been refused
C14_Witness ==
    /\ pc = "menu"
    /\ orders = <<>>
    /\ \E o \in Range(Persisted(outputFile)) :
           /\ Len(o.items) = 2
           /\ o.items[1].price = 0
           /\ o.items[2].price = 2

IntegerText(t) == ParseInt(t).ok

\* the part of the run an item entry must leave alone
OrderKept ==
    /\ UNCHANGED <<orders, files, order_id, customer, msg, result>>
    /\ pc' # "ret"

\* C15: in the item loop a price or quantity that is not an integer or is out
\* of range sends the loop back to the item prompt with the accepted items,
\* the order id, the customer and both collections unchanged; a valid entry
\* only extends the accepted items; an empty item name with no accepted item
\* asks again; and add_order finishes the loop only with at least one item,
\* all of which go into the new order.
C15_ItemLoopRetries ==
    [][/\ \A t \in PriceInputs :
              (AddReadPriceWith(t) /\ ~(IntegerText(t) /\ ParseInt(t).val >= 0))
                  => (pc' = "add_name" /\ items' = items /\ OrderKept)
       /\ \A t \in QuantityInputs :
              (AddReadQuantityWith(t) /\ ~(IntegerText(t) /\ ParseInt(t).val >= 1))
                  => (pc' = "add_name" /\ items' = items /\ OrderKept)
       /\ pc \in {"add_price", "add_quantity"} => (IsPrefix(items, items') /\ OrderKept)
       /\ (pc = "add_name" /\ Len(items) = 0)
              => (pc' \in {"add_name", "add_price"} /\ items' = items /\ OrderKept)
       /\ (pc = "add_name" /\ pc' = "ret")
              => /\ Strip(line') = <<>>
                 /\ Len(items) >= 1
                 /\ msg' = MsgAdded(order_id)
                 /\ orders' = Append(orders, [order_id |-> order_id,
                                              customer |-> customer,
                                              items |-> items])]_vars

\* C15 witness: the order was added with the one item accepted before a
\* refused entry, the item prompt having been answered again afterwards
C15_Witness ==
    /\ Finished("1")
    /\ msg = MsgAdded(order_id)
    /\ Len(items) = 1
    /\ name = <<>>
    /\ price = 0
    /\ items[1].price = 2

\* the order taken off the pending list is in the pending or the completed file
InSomeFile(option) ==
    \A o \in Range(option) :
        o \in Range(Persisted(inputFile)) \cup Range(Persisted(outputFile))

\* C16: a fulfilment writes the completed file, with the order in it, while
\* the pending file still holds the order, and writes the pending file after;
\* a stop inside a fulfilment writes nothing and leaves the order taken off
\* the pending list in at least one of the two files.
C16_StopKeepsOrder ==
    [][/\ (pc = "process_save_output" /\ pc' = "process_save_input")
              => /\ inputFile' = inputFile
                 /\ completed_order[1] \in Range(Persisted(inputFile'))
                 /\ completed_order[1] \in Range(Persisted(outputFile'))
       /\ (pc = "process_save_input" /\ pc' = "ret")
              => /\ outputFile' = outputFile
                 /\ completed_order[1] \in Range(Persisted(outputFile'))
       /\ pc' = "stopped"
              => /\ UNCHANGED files
                 /\ InSomeFile(completed_order)
       /\ Fulfilling' => InSomeFile(completed_order)']_vars

\* C16 witness: the process was stopped between the two writes and the order
\* is in both files
C16_Witness ==
    /\ pc = "stopped"
    /\ Persisted(inputFile) # <<>>
    /\ Persisted(inputFile)[1] \in Range(Persisted(outputFile))

\* the operation that returns to the menu added or fulfilled an order
Succeeded == pc = "ret" /\ msg.kind \in {"Added", "Fulfilled"}

\* C17: the step back to the menu after a successful add or fulfilment finds
\* the pending file holding exactly the in-memory pending list; from then on
\* the file stays a written list, and at every menu prompt a written pending
\* file equals the in-memory list (a file never written is missing or
\* unreadable and the list is then empty); an operation that fails, cancels
\* or reports changes neither the list nor the file.
C17_PendingFileMirrorsMemory ==
    [][/\ Succeeded => (pc' = "menu" /\ inputFile' = JsonFile(orders'))
       /\ (inputFile.kind = "json" /\ pc' # "start") => inputFile'.kind = "json"
       /\ pc' = "menu" => IF inputFile'.kind = "json"
                              THEN Persisted(inputFile') = orders'
                              ELSE orders' = <<>>
       /\ (pc' = "ret" /\ ~Succeeded')
              => (orders' = pre'.orders /\ inputFile' = pre'.inputFile)]_vars

\* C17 witness: the menu prompt after two adds to empty files and a
\* fulfilment, the pending file holding the one order left in memory
C17_Witness ==
    /\ pc = "menu"
    /\ Len(orders) = 1
    /\ orders[1].order_id = <<"B">>
    /\ inputFile = JsonFile(orders)
    /\ Len(Persisted(outputFile)) = 1
    /\ Persisted(outputFile)[1].order_id = <<"A">>
    /\ Persisted(outputFile)[1].items[1].price = 0

Ids(list) == {o.order_id : o \in Range(list)}

\* C18: the order-id prompt answers "already exists" exactly when the
\* non-empty upper-cased id is the id of a pending order; an id held only by
\* completed orders goes on to the customer prompt.
C18_UniqueAmongPendingOnly ==
    [][pc = "add_id" =>
          /\ msg'.kind = "DuplicateOrderId"
                 <=> (order_id' # <<>> /\ order_id' \in Ids(orders))
          /\ (order_id' \in Ids(Persisted(outputFile)) \ Ids(orders))
                 => (pc' = "add_customer" /\ msg' = NoMessage)]_vars

\* C18 witness: an id was added again after its order had been fulfilled, and
\* fulfilled again: the completed file holds two orders with that id
C18_Witness ==
    /\ pc = "menu"
    /\ orders = <<>>
    /\ Len(Persisted(outputFile)) = 2
    /\ Persisted(outputFile)[1].order_id = Persisted(outputFile)[2].order_id

\* C19: at every menu prompt, and when an operation returns to it, the pending
\* list followed by the completed file holds, as a bag, exactly the orders
\* loaded at startup and the orders added since, so the two lengths add up to
\* the number loaded plus the number of adds; an add raises the sum by one and
\* every other operation leaves it as it was.
C19_OrdersConserved ==
    LET held == orders \o Persisted(outputFile)
    IN  /\ pc \in {"menu", "ret", "exited"} =>
               /\ BagOf(held) = ledger
               /\ Len(held) = BagCardinality(ledger)
        /\ pc = "ret" =>
               Len(held) = Len(pre.orders) + Len(Persisted(pre.outputFile))
                               + (IF msg.kind = "Added" THEN 1 ELSE 0)

\* C19 witness: a fulfilment returns to the menu after an add, in a run that
\* loaded one pending order: the loaded order is completed, the added one pending
C19_Witness ==
    /\ pc = "ret"
    /\ msg.kind = "Fulfilled"
    /\ Len(orders) = 1
    /\ Len(Persisted(outputFile)) = 1
    /\ BagCardinality(ledger) = 2
    /\ orders[1].order_id # <<"A">>
    /\ Persisted(outputFile)[1] = EarlierPending

====
